---- MODULE Spec2Model ----
(***************************************************************************)
(* A model of crawl_movies.py: the crawler that walks the pages of the     *)
(* upstream "recently updated" listing, fetches every item's detail        *)
(* payload, sanitizes it, compares it with the record cached in the        *)
(* key-value store and overwrites the cached record when it differs.       *)
(*                                                                         *)
(* Text is a sequence of Unicode code points.  A Python/JSON value is a    *)
(* tagged record: null, bool, int, str, list, or dict; a dict is the       *)
(* sequence of its <<key, value>> pairs in insertion order, as a Python    *)
(* dict keeps them.                                                        *)
(***************************************************************************)
EXTENDS Integers, Sequences, FiniteSets, TLC

(***************************************************************************)
(* Python values                                                           *)
(***************************************************************************)
JNull == [t |-> "null"]
JBool(b) == [t |-> "bool", v |-> b]
JInt(n) == [t |-> "int", v |-> n]
JStr(s) == [t |-> "str", v |-> s]
JList(xs) == [t |-> "list", v |-> xs]
JDict(ps) == [t |-> "dict", v |-> ps]

\* bool(x): Python truthiness, as used by `and`, `or`, `not` and `if`.
Truthy(x) ==
  CASE x.t = "null" -> FALSE
    [] x.t = "bool" -> x.v
    [] x.t = "int" -> x.v # 0
    [] x.t = "str" -> Len(x.v) > 0
    [] x.t = "list" -> Len(x.v) > 0
    [] x.t = "dict" -> Len(x.v) > 0

\* key in d
DictHas(d, k) == \E i \in 1..Len(d.v) : d.v[i][1] = k

\* d.get(k, default)
DictGet(d, k, default) ==
  IF DictHas(d, k)
    THEN d.v[CHOOSE i \in 1..Len(d.v) : d.v[i][1] = k][2]
    ELSE default

\* d[k] = x: an existing key keeps its position, a new key goes last.
DictSet(d, k, x) ==
  IF DictHas(d, k)
    THEN JDict([i \in 1..Len(d.v) |-> IF d.v[i][1] = k THEN <<k, x>> ELSE d.v[i]])
    ELSE JDict(Append(d.v, <<k, x>>))

\* for x in v: can the value be iterated, and the items it yields (the
\* elements of a list, the keys of a dict, the characters of a text).
Iterable(x) == x.t \in {"list", "dict", "str"}
IterItems(x) ==
  IF x.t = "list" THEN x.v
  ELSE IF x.t = "dict" THEN [i \in 1..Len(x.v) |-> JStr(x.v[i][1])]
  ELSE [i \in 1..Len(x.v) |-> JStr(<<x.v[i]>>)]

\* k in x, for a text k: a key of a dict, an element of a list, a part of a
\* text.  (The test raises for a number, a boolean and None.)
Contains(x, k) ==
  IF x.t = "dict" THEN DictHas(x, k)
  ELSE IF x.t = "list" THEN \E i \in 1..Len(x.v) : x.v[i] = JStr(k)
  ELSE \E i \in 1..(Len(x.v) - Len(k) + 1) : SubSeq(x.v, i, i + Len(k) - 1) = k

(***************************************************************************)
(* The names the program uses as dict keys and literals.                   *)
(***************************************************************************)
K_status == <<115, 116, 97, 116, 117, 115>>
K_msg == <<109, 115, 103>>
K_movie == <<109, 111, 118, 105, 101>>
K_episodes == <<101, 112, 105, 115, 111, 100, 101, 115>>
K_items == <<105, 116, 101, 109, 115>>
K_pagination == <<112, 97, 103, 105, 110, 97, 116, 105, 111, 110>>
K_totalPages == <<116, 111, 116, 97, 108, 80, 97, 103, 101, 115>>
K_slug == <<115, 108, 117, 103>>
K_id == <<95, 105, 100>>
K_name == <<110, 97, 109, 101>>
K_content == <<99, 111, 110, 116, 101, 110, 116>>
K_category == <<99, 97, 116, 101, 103, 111, 114, 121>>
K_country == <<99, 111, 117, 110, 116, 114, 121>>
K_poster_url == <<112, 111, 115, 116, 101, 114, 95, 117, 114, 108>>
K_thumb_url == <<116, 104, 117, 109, 98, 95, 117, 114, 108>>
K_origin_name == <<111, 114, 105, 103, 105, 110, 95, 110, 97, 109, 101>>
K_trailer_url == <<116, 114, 97, 105, 108, 101, 114, 95, 117, 114, 108>>
K_server_data == <<115, 101, 114, 118, 101, 114, 95, 100, 97, 116, 97>>
K_filename == <<102, 105, 108, 101, 110, 97, 109, 101>>

\* "movie:"
MOVIE_DETAIL_CACHE_PREFIX == <<109, 111, 118, 105, 101, 58>>
MAX_CONTENT_LENGTH == 1000

(***************************************************************************)
(* validate_movie_data                                                     *)
(***************************************************************************)
\* validate_movie_data without the slug check.
validate_movie_data_NoSlug(movie) ==
  /\ Truthy(DictGet(movie, K_id, JNull))
  /\ Truthy(DictGet(movie, K_name, JNull))
  /\ Truthy(DictGet(movie, K_content, JNull))
  /\ DictGet(movie, K_category, JList(<<>>)).t = "list"
  /\ DictGet(movie, K_country, JList(<<>>)).t = "list"
  /\ \/ Truthy(DictGet(movie, K_poster_url, JNull))
     \/ Truthy(DictGet(movie, K_thumb_url, JNull))

validate_movie_data(movie) ==
  /\ Truthy(DictGet(movie, K_id, JNull))
  /\ Truthy(DictGet(movie, K_name, JNull))
  /\ Truthy(DictGet(movie, K_slug, JNull))
  /\ Truthy(DictGet(movie, K_content, JNull))
  /\ DictGet(movie, K_category, JList(<<>>)).t = "list"
  /\ DictGet(movie, K_country, JList(<<>>)).t = "list"
  /\ \/ Truthy(DictGet(movie, K_poster_url, JNull))
     \/ Truthy(DictGet(movie, K_thumb_url, JNull))

(***************************************************************************)
(* sanitize_string                                                         *)
(***************************************************************************)
RECURSIVE Digits(_)
\* The decimal digits of a natural number.
Digits(n) == IF n < 10 THEN <<48 + n>> ELSE Append(Digits(n \div 10), 48 + (n % 10))

\* str(n) for an int
IntToStr(n) == IF n < 0 THEN <<45>> \o Digits(0 - n) ELSE Digits(n)

\* Canonical decomposition of one code point, for the letters with an acute
\* accent that the model's texts use: a-acute, e-acute.
Decompose(c) ==
  CASE c = 225 -> <<97, 769>>
    [] c = 233 -> <<101, 769>>
    [] OTHER -> <<c>>

\* The primary composite of a starter and the combining acute accent U+0301,
\* or 0 when there is none.
Composite(base) ==
  CASE base = 97 -> 225
    [] base = 101 -> 233
    [] OTHER -> 0

\* The decompositions of the code points of s, one after the other.  The
\* text is split in halves so that long texts need little nesting.
RECURSIVE DecomposeAll(_)
DecomposeAll(s) ==
  IF s = <<>> THEN <<>>
  ELSE IF Len(s) = 1 THEN Decompose(s[1])
  ELSE LET h == Len(s) \div 2
       IN DecomposeAll(SubSeq(s, 1, h)) \o DecomposeAll(SubSeq(s, h + 1, Len(s)))

\* Canonical composition of a decomposed text: a combining acute accent right
\* after a starter that has a composite with it merges into the starter; an
\* accent after that one stays, since the composite has no composite.
ComposeAll(s) ==
  LET merges(i) == i > 1 /\ s[i] = 769 /\ Composite(s[i - 1]) # 0
      marked == [i \in 1..Len(s) |->
                   IF merges(i) THEN 0
                   ELSE IF i < Len(s) /\ merges(i + 1) THEN Composite(s[i])
                   ELSE s[i]]
  IN SelectSeq(marked, LAMBDA c : c # 0)

\* unicodedata.normalize('NFC', s)
NFC(s) == ComposeAll(DecomposeAll(s))

\* The replace chain: the four typographic quotes become ASCII quotes.
FoldQuote(c) ==
  CASE c = 8220 -> 34
    [] c = 8221 -> 34
    [] c = 8216 -> 39
    [] c = 8217 -> 39
    [] OTHER -> c

\* The code points that str.isprintable rejects, as the ranges first..last
\* in ascending order: the categories Other (Cc, Cf, Cs, Co, Cn) and
\* Separator (Zs, Zl, Zp) of the interpreter's Unicode database (14.0.0),
\* without the ASCII space.
NonPrintableRanges ==
  <<<<0, 31>>, <<127, 160>>, <<173, 173>>, <<888, 889>>, <<896, 899>>,
    <<907, 907>>, <<909, 909>>, <<930, 930>>, <<1328, 1328>>, <<1367, 1368>>,
    <<1419, 1420>>, <<1424, 1424>>, <<1480, 1487>>, <<1515, 1518>>,
    <<1525, 1541>>, <<1564, 1564>>, <<1757, 1757>>, <<1806, 1807>>,
    <<1867, 1868>>, <<1970, 1983>>, <<2043, 2044>>, <<2094, 2095>>,
    <<2111, 2111>>, <<2140, 2141>>, <<2143, 2143>>, <<2155, 2159>>,
    <<2191, 2199>>, <<2274, 2274>>, <<2436, 2436>>, <<2445, 2446>>,
    <<2449, 2450>>, <<2473, 2473>>, <<2481, 2481>>, <<2483, 2485>>,
    <<2490, 2491>>, <<2501, 2502>>, <<2505, 2506>>, <<2511, 2518>>,
    <<2520, 2523>>, <<2526, 2526>>, <<2532, 2533>>, <<2559, 2560>>,
    <<2564, 2564>>, <<2571, 2574>>, <<2577, 2578>>, <<2601, 2601>>,
    <<2609, 2609>>, <<2612, 2612>>, <<2615, 2615>>, <<2618, 2619>>,
    <<2621, 2621>>, <<2627, 2630>>, <<2633, 2634>>, <<2638, 2640>>,
    <<2642, 2648>>, <<2653, 2653>>, <<2655, 2661>>, <<2679, 2688>>,
    <<2692, 2692>>, <<2702, 2702>>, <<2706, 2706>>, <<2729, 2729>>,
    <<2737, 2737>>, <<2740, 2740>>, <<2746, 2747>>, <<2758, 2758>>,
    <<2762, 2762>>, <<2766, 2767>>, <<2769, 2783>>, <<2788, 2789>>,
    <<2802, 2808>>, <<2816, 2816>>, <<2820, 2820>>, <<2829, 2830>>,
    <<2833, 2834>>, <<2857, 2857>>, <<2865, 2865>>, <<2868, 2868>>,
    <<2874, 2875>>, <<2885, 2886>>, <<2889, 2890>>, <<2894, 2900>>,
    <<2904, 2907>>, <<2910, 2910>>, <<2916, 2917>>, <<2936, 2945>>,
    <<2948, 2948>>, <<2955, 2957>>, <<2961, 2961>>, <<2966, 2968>>,
    <<2971, 2971>>, <<2973, 2973>>, <<2976, 2978>>, <<2981, 2983>>,
    <<2987, 2989>>, <<3002, 3005>>, <<3011, 3013>>, <<3017, 3017>>,
    <<3022, 3023>>, <<3025, 3030>>, <<3032, 3045>>, <<3067, 3071>>,
    <<3085, 3085>>, <<3089, 3089>>, <<3113, 3113>>, <<3130, 3131>>,
    <<3141, 3141>>, <<3145, 3145>>, <<3150, 3156>>, <<3159, 3159>>,
    <<3163, 3164>>, <<3166, 3167>>, <<3172, 3173>>, <<3184, 3190>>,
    <<3213, 3213>>, <<3217, 3217>>, <<3241, 3241>>, <<3252, 3252>>,
    <<3258, 3259>>, <<3269, 3269>>, <<3273, 3273>>, <<3278, 3284>>,
    <<3287, 3292>>, <<3295, 3295>>, <<3300, 3301>>, <<3312, 3312>>,
    <<3315, 3327>>, <<3341, 3341>>, <<3345, 3345>>, <<3397, 3397>>,
    <<3401, 3401>>, <<3408, 3411>>, <<3428, 3429>>, <<3456, 3456>>,
    <<3460, 3460>>, <<3479, 3481>>, <<3506, 3506>>, <<3516, 3516>>,
    <<3518, 3519>>, <<3527, 3529>>, <<3531, 3534>>, <<3541, 3541>>,
    <<3543, 3543>>, <<3552, 3557>>, <<3568, 3569>>, <<3573, 3584>>,
    <<3643, 3646>>, <<3676, 3712>>, <<3715, 3715>>, <<3717, 3717>>,
    <<3723, 3723>>, <<3748, 3748>>, <<3750, 3750>>, <<3774, 3775>>,
    <<3781, 3781>>, <<3783, 3783>>, <<3790, 3791>>, <<3802, 3803>>,
    <<3808, 3839>>, <<3912, 3912>>, <<3949, 3952>>, <<3992, 3992>>,
    <<4029, 4029>>, <<4045, 4045>>, <<4059, 4095>>, <<4294, 4294>>,
    <<4296, 4300>>, <<4302, 4303>>, <<4681, 4681>>, <<4686, 4687>>,
    <<4695, 4695>>, <<4697, 4697>>, <<4702, 4703>>, <<4745, 4745>>,
    <<4750, 4751>>, <<4785, 4785>>, <<4790, 4791>>, <<4799, 4799>>,
    <<4801, 4801>>, <<4806, 4807>>, <<4823, 4823>>, <<4881, 4881>>,
    <<4886, 4887>>, <<4955, 4956>>, <<4989, 4991>>, <<5018, 5023>>,
    <<5110, 5111>>, <<5118, 5119>>, <<5760, 5760>>, <<5789, 5791>>,
    <<5881, 5887>>, <<5910, 5918>>, <<5943, 5951>>, <<5972, 5983>>,
    <<5997, 5997>>, <<6001, 6001>>, <<6004, 6015>>, <<6110, 6111>>,
    <<6122, 6127>>, <<6138, 6143>>, <<6158, 6158>>, <<6170, 6175>>,
    <<6265, 6271>>, <<6315, 6319>>, <<6390, 6399>>, <<6431, 6431>>,
    <<6444, 6447>>, <<6460, 6463>>, <<6465, 6467>>, <<6510, 6511>>,
    <<6517, 6527>>, <<6572, 6575>>, <<6602, 6607>>, <<6619, 6621>>,
    <<6684, 6685>>, <<6751, 6751>>, <<6781, 6782>>, <<6794, 6799>>,
    <<6810, 6815>>, <<6830, 6831>>, <<6863, 6911>>, <<6989, 6991>>,
    <<7039, 7039>>, <<7156, 7163>>, <<7224, 7226>>, <<7242, 7244>>,
    <<7305, 7311>>, <<7355, 7356>>, <<7368, 7375>>, <<7419, 7423>>,
    <<7958, 7959>>, <<7966, 7967>>, <<8006, 8007>>, <<8014, 8015>>,
    <<8024, 8024>>, <<8026, 8026>>, <<8028, 8028>>, <<8030, 8030>>,
    <<8062, 8063>>, <<8117, 8117>>, <<8133, 8133>>, <<8148, 8149>>,
    <<8156, 8156>>, <<8176, 8177>>, <<8181, 8181>>, <<8191, 8207>>,
    <<8232, 8239>>, <<8287, 8303>>, <<8306, 8307>>, <<8335, 8335>>,
    <<8349, 8351>>, <<8385, 8399>>, <<8433, 8447>>, <<8588, 8591>>,
    <<9255, 9279>>, <<9291, 9311>>, <<11124, 11125>>, <<11158, 11158>>,
    <<11508, 11512>>, <<11558, 11558>>, <<11560, 11564>>, <<11566, 11567>>,
    <<11624, 11630>>, <<11633, 11646>>, <<11671, 11679>>, <<11687, 11687>>,
    <<11695, 11695>>, <<11703, 11703>>, <<11711, 11711>>, <<11719, 11719>>,
    <<11727, 11727>>, <<11735, 11735>>, <<11743, 11743>>, <<11870, 11903>>,
    <<11930, 11930>>, <<12020, 12031>>, <<12246, 12271>>, <<12284, 12288>>,
    <<12352, 12352>>, <<12439, 12440>>, <<12544, 12548>>, <<12592, 12592>>,
    <<12687, 12687>>, <<12772, 12783>>, <<12831, 12831>>, <<42125, 42127>>,
    <<42183, 42191>>, <<42540, 42559>>, <<42744, 42751>>, <<42955, 42959>>,
    <<42962, 42962>>, <<42964, 42964>>, <<42970, 42993>>, <<43053, 43055>>,
    <<43066, 43071>>, <<43128, 43135>>, <<43206, 43213>>, <<43226, 43231>>,
    <<43348, 43358>>, <<43389, 43391>>, <<43470, 43470>>, <<43482, 43485>>,
    <<43519, 43519>>, <<43575, 43583>>, <<43598, 43599>>, <<43610, 43611>>,
    <<43715, 43738>>, <<43767, 43776>>, <<43783, 43784>>, <<43791, 43792>>,
    <<43799, 43807>>, <<43815, 43815>>, <<43823, 43823>>, <<43884, 43887>>,
    <<44014, 44015>>, <<44026, 44031>>, <<55204, 55215>>, <<55239, 55242>>,
    <<55292, 63743>>, <<64110, 64111>>, <<64218, 64255>>, <<64263, 64274>>,
    <<64280, 64284>>, <<64311, 64311>>, <<64317, 64317>>, <<64319, 64319>>,
    <<64322, 64322>>, <<64325, 64325>>, <<64451, 64466>>, <<64912, 64913>>,
    <<64968, 64974>>, <<64976, 65007>>, <<65050, 65055>>, <<65107, 65107>>,
    <<65127, 65127>>, <<65132, 65135>>, <<65141, 65141>>, <<65277, 65280>>,
    <<65471, 65473>>, <<65480, 65481>>, <<65488, 65489>>, <<65496, 65497>>,
    <<65501, 65503>>, <<65511, 65511>>, <<65519, 65531>>, <<65534, 65535>>,
    <<65548, 65548>>, <<65575, 65575>>, <<65595, 65595>>, <<65598, 65598>>,
    <<65614, 65615>>, <<65630, 65663>>, <<65787, 65791>>, <<65795, 65798>>,
    <<65844, 65846>>, <<65935, 65935>>, <<65949, 65951>>, <<65953, 65999>>,
    <<66046, 66175>>, <<66205, 66207>>, <<66257, 66271>>, <<66300, 66303>>,
    <<66340, 66348>>, <<66379, 66383>>, <<66427, 66431>>, <<66462, 66462>>,
    <<66500, 66503>>, <<66518, 66559>>, <<66718, 66719>>, <<66730, 66735>>,
    <<66772, 66775>>, <<66812, 66815>>, <<66856, 66863>>, <<66916, 66926>>,
    <<66939, 66939>>, <<66955, 66955>>, <<66963, 66963>>, <<66966, 66966>>,
    <<66978, 66978>>, <<66994, 66994>>, <<67002, 67002>>, <<67005, 67071>>,
    <<67383, 67391>>, <<67414, 67423>>, <<67432, 67455>>, <<67462, 67462>>,
    <<67505, 67505>>, <<67515, 67583>>, <<67590, 67591>>, <<67593, 67593>>,
    <<67638, 67638>>, <<67641, 67643>>, <<67645, 67646>>, <<67670, 67670>>,
    <<67743, 67750>>, <<67760, 67807>>, <<67827, 67827>>, <<67830, 67834>>,
    <<67868, 67870>>, <<67898, 67902>>, <<67904, 67967>>, <<68024, 68027>>,
    <<68048, 68049>>, <<68100, 68100>>, <<68103, 68107>>, <<68116, 68116>>,
    <<68120, 68120>>, <<68150, 68151>>, <<68155, 68158>>, <<68169, 68175>>,
    <<68185, 68191>>, <<68256, 68287>>, <<68327, 68330>>, <<68343, 68351>>,
    <<68406, 68408>>, <<68438, 68439>>, <<68467, 68471>>, <<68498, 68504>>,
    <<68509, 68520>>, <<68528, 68607>>, <<68681, 68735>>, <<68787, 68799>>,
    <<68851, 68857>>, <<68904, 68911>>, <<68922, 69215>>, <<69247, 69247>>,
    <<69290, 69290>>, <<69294, 69295>>, <<69298, 69375>>, <<69416, 69423>>,
    <<69466, 69487>>, <<69514, 69551>>, <<69580, 69599>>, <<69623, 69631>>,
    <<69710, 69713>>, <<69750, 69758>>, <<69821, 69821>>, <<69827, 69839>>,
    <<69865, 69871>>, <<69882, 69887>>, <<69941, 69941>>, <<69960, 69967>>,
    <<70007, 70015>>, <<70112, 70112>>, <<70133, 70143>>, <<70162, 70162>>,
    <<70207, 70271>>, <<70279, 70279>>, <<70281, 70281>>, <<70286, 70286>>,
    <<70302, 70302>>, <<70314, 70319>>, <<70379, 70383>>, <<70394, 70399>>,
    <<70404, 70404>>, <<70413, 70414>>, <<70417, 70418>>, <<70441, 70441>>,
    <<70449, 70449>>, <<70452, 70452>>, <<70458, 70458>>, <<70469, 70470>>,
    <<70473, 70474>>, <<70478, 70479>>, <<70481, 70486>>, <<70488, 70492>>,
    <<70500, 70501>>, <<70509, 70511>>, <<70517, 70655>>, <<70748, 70748>>,
    <<70754, 70783>>, <<70856, 70863>>, <<70874, 71039>>, <<71094, 71095>>,
    <<71134, 71167>>, <<71237, 71247>>, <<71258, 71263>>, <<71277, 71295>>,
    <<71354, 71359>>, <<71370, 71423>>, <<71451, 71452>>, <<71468, 71471>>,
    <<71495, 71679>>, <<71740, 71839>>, <<71923, 71934>>, <<71943, 71944>>,
    <<71946, 71947>>, <<71956, 71956>>, <<71959, 71959>>, <<71990, 71990>>,
    <<71993, 71994>>, <<72007, 72015>>, <<72026, 72095>>, <<72104, 72105>>,
    <<72152, 72153>>, <<72165, 72191>>, <<72264, 72271>>, <<72355, 72367>>,
    <<72441, 72703>>, <<72713, 72713>>, <<72759, 72759>>, <<72774, 72783>>,
    <<72813, 72815>>, <<72848, 72849>>, <<72872, 72872>>, <<72887, 72959>>,
    <<72967, 72967>>, <<72970, 72970>>, <<73015, 73017>>, <<73019, 73019>>,
    <<73022, 73022>>, <<73032, 73039>>, <<73050, 73055>>, <<73062, 73062>>,
    <<73065, 73065>>, <<73103, 73103>>, <<73106, 73106>>, <<73113, 73119>>,
    <<73130, 73439>>, <<73465, 73647>>, <<73649, 73663>>, <<73714, 73726>>,
    <<74650, 74751>>, <<74863, 74863>>, <<74869, 74879>>, <<75076, 77711>>,
    <<77811, 77823>>, <<78895, 82943>>, <<83527, 92159>>, <<92729, 92735>>,
    <<92767, 92767>>, <<92778, 92781>>, <<92863, 92863>>, <<92874, 92879>>,
    <<92910, 92911>>, <<92918, 92927>>, <<92998, 93007>>, <<93018, 93018>>,
    <<93026, 93026>>, <<93048, 93052>>, <<93072, 93759>>, <<93851, 93951>>,
    <<94027, 94030>>, <<94088, 94094>>, <<94112, 94175>>, <<94181, 94191>>,
    <<94194, 94207>>, <<100344, 100351>>, <<101590, 101631>>,
    <<101641, 110575>>, <<110580, 110580>>, <<110588, 110588>>,
    <<110591, 110591>>, <<110883, 110927>>, <<110931, 110947>>,
    <<110952, 110959>>, <<111356, 113663>>, <<113771, 113775>>,
    <<113789, 113791>>, <<113801, 113807>>, <<113818, 113819>>,
    <<113824, 118527>>, <<118574, 118575>>, <<118599, 118607>>,
    <<118724, 118783>>, <<119030, 119039>>, <<119079, 119080>>,
    <<119155, 119162>>, <<119275, 119295>>, <<119366, 119519>>,
    <<119540, 119551>>, <<119639, 119647>>, <<119673, 119807>>,
    <<119893, 119893>>, <<119965, 119965>>, <<119968, 119969>>,
    <<119971, 119972>>, <<119975, 119976>>, <<119981, 119981>>,
    <<119994, 119994>>, <<119996, 119996>>, <<120004, 120004>>,
    <<120070, 120070>>, <<120075, 120076>>, <<120085, 120085>>,
    <<120093, 120093>>, <<120122, 120122>>, <<120127, 120127>>,
    <<120133, 120133>>, <<120135, 120137>>, <<120145, 120145>>,
    <<120486, 120487>>, <<120780, 120781>>, <<121484, 121498>>,
    <<121504, 121504>>, <<121520, 122623>>, <<122655, 122879>>,
    <<122887, 122887>>, <<122905, 122906>>, <<122914, 122914>>,
    <<122917, 122917>>, <<122923, 123135>>, <<123181, 123183>>,
    <<123198, 123199>>, <<123210, 123213>>, <<123216, 123535>>,
    <<123567, 123583>>, <<123642, 123646>>, <<123648, 124895>>,
    <<124903, 124903>>, <<124908, 124908>>, <<124911, 124911>>,
    <<124927, 124927>>, <<125125, 125126>>, <<125143, 125183>>,
    <<125260, 125263>>, <<125274, 125277>>, <<125280, 126064>>,
    <<126133, 126208>>, <<126270, 126463>>, <<126468, 126468>>,
    <<126496, 126496>>, <<126499, 126499>>, <<126501, 126502>>,
    <<126504, 126504>>, <<126515, 126515>>, <<126520, 126520>>,
    <<126522, 126522>>, <<126524, 126529>>, <<126531, 126534>>,
    <<126536, 126536>>, <<126538, 126538>>, <<126540, 126540>>,
    <<126544, 126544>>, <<126547, 126547>>, <<126549, 126550>>,
    <<126552, 126552>>, <<126554, 126554>>, <<126556, 126556>>,
    <<126558, 126558>>, <<126560, 126560>>, <<126563, 126563>>,
    <<126565, 126566>>, <<126571, 126571>>, <<126579, 126579>>,
    <<126584, 126584>>, <<126589, 126589>>, <<126591, 126591>>,
    <<126602, 126602>>, <<126620, 126624>>, <<126628, 126628>>,
    <<126634, 126634>>, <<126652, 126703>>, <<126706, 126975>>,
    <<127020, 127023>>, <<127124, 127135>>, <<127151, 127152>>,
    <<127168, 127168>>, <<127184, 127184>>, <<127222, 127231>>,
    <<127406, 127461>>, <<127491, 127503>>, <<127548, 127551>>,
    <<127561, 127567>>, <<127570, 127583>>, <<127590, 127743>>,
    <<128728, 128732>>, <<128749, 128751>>, <<128765, 128767>>,
    <<128884, 128895>>, <<128985, 128991>>, <<129004, 129007>>,
    <<129009, 129023>>, <<129036, 129039>>, <<129096, 129103>>,
    <<129114, 129119>>, <<129160, 129167>>, <<129198, 129199>>,
    <<129202, 129279>>, <<129620, 129631>>, <<129646, 129647>>,
    <<129653, 129655>>, <<129661, 129663>>, <<129671, 129679>>,
    <<129709, 129711>>, <<129723, 129727>>, <<129734, 129743>>,
    <<129754, 129759>>, <<129768, 129775>>, <<129783, 129791>>,
    <<129939, 129939>>, <<129995, 130031>>, <<130042, 131071>>,
    <<173792, 173823>>, <<177977, 177983>>, <<178206, 178207>>,
    <<183970, 183983>>, <<191457, 194559>>, <<195102, 196607>>,
    <<201547, 917759>>, <<918000, 1114111>>>>

\* The position in NonPrintableRanges[lo..hi] of the last range that starts
\* at or before c, or lo - 1 when there is none.
RECURSIVE LastRangeFrom(_, _, _)
LastRangeFrom(c, lo, hi) ==
  IF lo > hi THEN hi
  ELSE LET mid == (lo + hi) \div 2
       IN IF NonPrintableRanges[mid][1] <= c
            THEN LastRangeFrom(c, mid + 1, hi)
            ELSE LastRangeFrom(c, lo, mid - 1)

\* str.isprintable for one code point
IsPrintable(c) ==
  LET i == LastRangeFrom(c, 1, Len(NonPrintableRanges))
  IN ~(i > 0 /\ c <= NonPrintableRanges[i][2])

\* A hexadecimal digit, in lower case.
HexDigit(d) == IF d < 10 THEN 48 + d ELSE 87 + d

\* The texts of a sequence one after the other, with sep between them.  The
\* sequence is split in halves so that long ones need little nesting.
RECURSIVE Join(_, _)
Join(parts, sep) ==
  IF parts = <<>> THEN <<>>
  ELSE IF Len(parts) = 1 THEN parts[1]
  ELSE LET h == Len(parts) \div 2
       IN Join(SubSeq(parts, 1, h), sep) \o sep
            \o Join(SubSeq(parts, h + 1, Len(parts)), sep)

\* One code point inside the repr of a text that is quoted with q.
ReprChar(c, q) ==
  CASE c = 92 \/ c = q -> <<92, c>>
    [] c = 9 -> <<92, 116>>
    [] c = 10 -> <<92, 110>>
    [] c = 13 -> <<92, 114>>
    [] c < 32 \/ c = 127 \/ (c < 256 /\ ~IsPrintable(c)) ->
         <<92, 120, HexDigit(c \div 16), HexDigit(c % 16)>>
    [] c >= 256 /\ c < 65536 /\ ~IsPrintable(c) ->
         <<92, 117, HexDigit(c \div 4096), HexDigit((c \div 256) % 16),
           HexDigit((c \div 16) % 16), HexDigit(c % 16)>>
    [] c >= 65536 /\ ~IsPrintable(c) ->
         <<92, 85, 48, 48, HexDigit(c \div 1048576), HexDigit((c \div 65536) % 16),
           HexDigit((c \div 4096) % 16), HexDigit((c \div 256) % 16),
           HexDigit((c \div 16) % 16), HexDigit(c % 16)>>
    [] OTHER -> <<c>>

\* repr(s) for a text: in single quotes, or in double quotes when the text
\* has a single quote and no double quote.
ReprStr(s) ==
  LET q == IF (\E i \in 1..Len(s) : s[i] = 39) /\ ~(\E i \in 1..Len(s) : s[i] = 34)
             THEN 34 ELSE 39
  IN <<q>> \o Join([i \in 1..Len(s) |-> ReprChar(s[i], q)], <<>>) \o <<q>>

\* repr(x)
RECURSIVE PyRepr(_)
PyRepr(x) ==
  CASE x.t = "null" -> <<78, 111, 110, 101>>
    [] x.t = "bool" -> IF x.v THEN <<84, 114, 117, 101>> ELSE <<70, 97, 108, 115, 101>>
    [] x.t = "int" -> IntToStr(x.v)
    [] x.t = "str" -> ReprStr(x.v)
    [] x.t = "list" ->
         <<91>> \o Join([i \in 1..Len(x.v) |-> PyRepr(x.v[i])], <<44, 32>>) \o <<93>>
    [] x.t = "dict" ->
         <<123>> \o Join([i \in 1..Len(x.v) |->
                           ReprStr(x.v[i][1]) \o <<58, 32>> \o PyRepr(x.v[i][2])],
                        <<44, 32>>)
           \o <<125>>

\* str(x): the text itself, and the repr of any other value.
PyStr(x) == IF x.t = "str" THEN x.v ELSE PyRepr(x)

sanitize_string(x) ==
  IF x.t # "str"
    THEN IF x.t = "null" THEN <<>> ELSE PyStr(x)
    ELSE LET n == NFC(x.v)
             q == [i \in 1..Len(n) |-> FoldQuote(n[i])]
         IN SelectSeq(q, IsPrintable)

(***************************************************************************)
(* json.dumps                                                              *)
(***************************************************************************)
\* \uXXXX
UEscape(c) ==
  <<92, 117, HexDigit(c \div 4096), HexDigit((c \div 256) % 16),
    HexDigit((c \div 16) % 16), HexDigit(c % 16)>>

\* One code point inside a JSON string.  With ensure_ascii a code point from
\* 65536 on is written as a surrogate pair.
EscapeChar(c, ensure_ascii) ==
  CASE c = 34 -> <<92, 34>>
    [] c = 92 -> <<92, 92>>
    [] c = 10 -> <<92, 110>>
    [] c = 13 -> <<92, 114>>
    [] c = 9 -> <<92, 116>>
    [] c = 8 -> <<92, 98>>
    [] c = 12 -> <<92, 102>>
    [] c < 32 /\ c \notin {8, 9, 10, 12, 13} -> UEscape(c)
    [] c > 126 /\ c < 65536 /\ ensure_ascii -> UEscape(c)
    [] c >= 65536 /\ ensure_ascii ->
         UEscape(55296 + ((c - 65536) \div 1024)) \o UEscape(56320 + ((c - 65536) % 1024))
    [] OTHER -> <<c>>

RECURSIVE EscapeStr(_, _)
EscapeStr(s, ensure_ascii) ==
  IF s = <<>> THEN <<>>
  ELSE EscapeChar(Head(s), ensure_ascii) \o EscapeStr(Tail(s), ensure_ascii)

RECURSIVE LexLess(_, _)
\* a < b for two texts, as Python orders str: by code point.
LexLess(a, b) ==
  IF a = <<>> THEN b # <<>>
  ELSE IF b = <<>> THEN FALSE
  ELSE IF Head(a) # Head(b) THEN Head(a) < Head(b)
  ELSE LexLess(Tail(a), Tail(b))

RECURSIVE InsertPair(_, _)
\* Insert a pair into a key-sorted sequence of pairs, after the pairs whose
\* key is not greater (sorted() is stable).
InsertPair(ps, p) ==
  IF ps = <<>> THEN <<p>>
  ELSE IF LexLess(p[1], Head(ps)[1]) THEN <<p>> \o ps
  ELSE <<Head(ps)>> \o InsertPair(Tail(ps), p)

RECURSIVE SortPairs(_)
\* sorted(d.items())
SortPairs(ps) ==
  IF ps = <<>> THEN <<>>
  ELSE InsertPair(SortPairs(SubSeq(ps, 1, Len(ps) - 1)), ps[Len(ps)])

RECURSIVE Dumps(_, _, _, _, _), DumpsItems(_, _, _, _, _), DumpsPairs(_, _, _, _, _)
\* json.dumps(x, sort_keys=..., ensure_ascii=..., separators=(itemSep, keySep))
Dumps(x, sort_keys, ensure_ascii, itemSep, keySep) ==
  CASE x.t = "null" -> <<110, 117, 108, 108>>
    [] x.t = "bool" -> IF x.v THEN <<116, 114, 117, 101>> ELSE <<102, 97, 108, 115, 101>>
    [] x.t = "int" -> IntToStr(x.v)
    [] x.t = "str" -> <<34>> \o EscapeStr(x.v, ensure_ascii) \o <<34>>
    [] x.t = "list" ->
         <<91>> \o DumpsItems(x.v, sort_keys, ensure_ascii, itemSep, keySep) \o <<93>>
    [] x.t = "dict" ->
         <<123>> \o DumpsPairs(IF sort_keys THEN SortPairs(x.v) ELSE x.v,
                               sort_keys, ensure_ascii, itemSep, keySep) \o <<125>>

DumpsItems(xs, sort_keys, ensure_ascii, itemSep, keySep) ==
  IF xs = <<>> THEN <<>>
  ELSE Dumps(Head(xs), sort_keys, ensure_ascii, itemSep, keySep)
       \o (IF Len(xs) > 1 THEN itemSep ELSE <<>>)
       \o DumpsItems(Tail(xs), sort_keys, ensure_ascii, itemSep, keySep)

DumpsPairs(ps, sort_keys, ensure_ascii, itemSep, keySep) ==
  IF ps = <<>> THEN <<>>
  ELSE <<34>> \o EscapeStr(Head(ps)[1], ensure_ascii) \o <<34>> \o keySep
       \o Dumps(Head(ps)[2], sort_keys, ensure_ascii, itemSep, keySep)
       \o (IF Len(ps) > 1 THEN itemSep ELSE <<>>)
       \o DumpsPairs(Tail(ps), sort_keys, ensure_ascii, itemSep, keySep)

\* json.dumps(obj, sort_keys=True, ensure_ascii=False), default separators
DumpsSorted(x) == Dumps(x, TRUE, FALSE, <<44, 32>>, <<58, 32>>)

(***************************************************************************)
(* compare_objects                                                         *)
(***************************************************************************)
\* compare_objects with sort_keys left out for the stored object.
compare_objects_OldUnsorted(new_obj, old_obj) ==
  DumpsSorted(new_obj) = Dumps(old_obj, FALSE, FALSE, <<44, 32>>, <<58, 32>>)

compare_objects(new_obj, old_obj) == DumpsSorted(new_obj) = DumpsSorted(old_obj)

(***************************************************************************)
(* json.loads                                                              *)
(*                                                                         *)
(* A parse result is [ok, val, pos]: whether a value was read, the value,  *)
(* and the position after it.  Numbers are integers; the model's payloads  *)
(* hold no floats.                                                         *)
(***************************************************************************)
ParseFail == [ok |-> FALSE, val |-> JNull, pos |-> 0]
ParseOk(x, p) == [ok |-> TRUE, val |-> x, pos |-> p]

IsWs(c) == c \in {32, 9, 10, 13}
IsDigit(c) == c \in 48..57

RECURSIVE SkipWs(_, _)
SkipWs(s, i) == IF i <= Len(s) /\ IsWs(s[i]) THEN SkipWs(s, i + 1) ELSE i

\* The value of a hexadecimal digit, or -1.
HexVal(c) ==
  CASE c \in 48..57 -> c - 48
    [] c \in 97..102 -> c - 87
    [] c \in 65..70 -> c - 55
    [] OTHER -> 0 - 1

\* Does the literal word w stand at position i of s?
HasWord(s, i, w) == i + Len(w) - 1 <= Len(s) /\ SubSeq(s, i, i + Len(w) - 1) = w

\* The number written by the four hexadecimal digits from position i on, or
\* -1 when they are not four hexadecimal digits.
Hex4(s, i) ==
  IF i + 3 > Len(s) \/ \E k \in 0..3 : HexVal(s[i + k]) < 0 THEN 0 - 1
  ELSE HexVal(s[i]) * 4096 + HexVal(s[i + 1]) * 256 + HexVal(s[i + 2]) * 16
         + HexVal(s[i + 3])

RECURSIVE ParseString(_, _, _)
\* The rest of a string whose opening quote has been read.  A \u escape of a
\* high surrogate that is followed by a \u escape of a low surrogate reads as
\* one code point.
ParseString(s, i, acc) ==
  IF i > Len(s) THEN ParseFail
  ELSE LET c == s[i] IN
    IF c = 34 THEN ParseOk(JStr(acc), i + 1)
    ELSE IF c < 32 THEN ParseFail
    ELSE IF c # 92 THEN ParseString(s, i + 1, Append(acc, c))
    ELSE IF i + 1 > Len(s) THEN ParseFail
    ELSE LET e == s[i + 1] IN
      CASE e = 34 -> ParseString(s, i + 2, Append(acc, 34))
        [] e = 92 -> ParseString(s, i + 2, Append(acc, 92))
        [] e = 47 -> ParseString(s, i + 2, Append(acc, 47))
        [] e = 98 -> ParseString(s, i + 2, Append(acc, 8))
        [] e = 102 -> ParseString(s, i + 2, Append(acc, 12))
        [] e = 110 -> ParseString(s, i + 2, Append(acc, 10))
        [] e = 114 -> ParseString(s, i + 2, Append(acc, 13))
        [] e = 116 -> ParseString(s, i + 2, Append(acc, 9))
        [] e = 117 ->
             LET u == Hex4(s, i + 2) IN
             IF u < 0 THEN ParseFail
             ELSE IF u \in 55296..56319 /\ i + 11 <= Len(s)
                     /\ s[i + 6] = 92 /\ s[i + 7] = 117
               THEN LET u2 == Hex4(s, i + 8) IN
                    IF u2 < 0 THEN ParseFail
                    ELSE IF u2 \in 56320..57343
                      THEN ParseString(s, i + 12,
                             Append(acc, 65536 + (u - 55296) * 1024 + (u2 - 56320)))
                    ELSE ParseString(s, i + 6, Append(acc, u))
             ELSE ParseString(s, i + 6, Append(acc, u))
        [] OTHER -> ParseFail

RECURSIVE ParseDigits(_, _, _)
\* The digits from position i on, accumulated into n.
ParseDigits(s, i, n) ==
  IF i <= Len(s) /\ IsDigit(s[i])
    THEN ParseDigits(s, i + 1, 10 * n + (s[i] - 48))
    ELSE [val |-> n, pos |-> i]

\* An integer at position i: 0, or a nonzero digit and more digits.
ParseNat(s, i) ==
  IF i > Len(s) \/ ~IsDigit(s[i]) THEN ParseFail
  ELSE IF s[i] = 48 THEN ParseOk(JInt(0), i + 1)
  ELSE LET d == ParseDigits(s, i, 0) IN ParseOk(JInt(d.val), d.pos)

RECURSIVE ParseValue(_, _), ParseElements(_, _, _), ParseMembers(_, _, _)
\* The JSON value that starts at position i (white space skipped).
ParseValue(s, i0) ==
  LET i == SkipWs(s, i0) IN
  IF i > Len(s) THEN ParseFail
  ELSE LET c == s[i] IN
    CASE c = 34 -> ParseString(s, i + 1, <<>>)
      [] c = 123 ->
           LET j == SkipWs(s, i + 1) IN
           IF j <= Len(s) /\ s[j] = 125 THEN ParseOk(JDict(<<>>), j + 1)
           ELSE ParseMembers(s, j, JDict(<<>>))
      [] c = 91 ->
           LET j == SkipWs(s, i + 1) IN
           IF j <= Len(s) /\ s[j] = 93 THEN ParseOk(JList(<<>>), j + 1)
           ELSE ParseElements(s, j, <<>>)
      [] c = 45 ->
           LET r == ParseNat(s, i + 1) IN
           IF r.ok THEN ParseOk(JInt(0 - r.val.v), r.pos) ELSE ParseFail
      [] IsDigit(c) -> ParseNat(s, i)
      [] HasWord(s, i, <<116, 114, 117, 101>>) -> ParseOk(JBool(TRUE), i + 4)
      [] HasWord(s, i, <<102, 97, 108, 115, 101>>) -> ParseOk(JBool(FALSE), i + 5)
      [] HasWord(s, i, <<110, 117, 108, 108>>) -> ParseOk(JNull, i + 4)
      [] OTHER -> ParseFail

\* The elements of an array from position i on, after the elements in acc.
ParseElements(s, i, acc) ==
  LET r == ParseValue(s, i) IN
  IF ~r.ok THEN ParseFail
  ELSE LET j == SkipWs(s, r.pos) IN
    IF j > Len(s) THEN ParseFail
    ELSE IF s[j] = 93 THEN ParseOk(JList(Append(acc, r.val)), j + 1)
    ELSE IF s[j] = 44 THEN ParseElements(s, j + 1, Append(acc, r.val))
    ELSE ParseFail

\* The members of an object from position i on, added to the dict d; a
\* repeated key takes its last value.
ParseMembers(s, i0, d) ==
  LET i == SkipWs(s, i0) IN
  IF i > Len(s) \/ s[i] # 34 THEN ParseFail
  ELSE LET k == ParseString(s, i + 1, <<>>) IN
    IF ~k.ok THEN ParseFail
    ELSE LET c == SkipWs(s, k.pos) IN
      IF c > Len(s) \/ s[c] # 58 THEN ParseFail
      ELSE LET r == ParseValue(s, c + 1) IN
        IF ~r.ok THEN ParseFail
        ELSE LET j == SkipWs(s, r.pos)
                 d2 == DictSet(d, k.val.v, r.val)
             IN IF j > Len(s) THEN ParseFail
                ELSE IF s[j] = 125 THEN ParseOk(d2, j + 1)
                ELSE IF s[j] = 44 THEN ParseMembers(s, j + 1, d2)
                ELSE ParseFail

\* json.loads(s): [ok |-> FALSE] stands for json.JSONDecodeError.
Loads(s) ==
  LET r == ParseValue(s, 1) IN
  IF r.ok /\ SkipWs(s, r.pos) > Len(s) THEN r ELSE ParseFail

(***************************************************************************)
(* cache_movie: building the record to cache                               *)
(***************************************************************************)
RECURSIVE SanitizeKeys(_, _)
\* for key in keys: if key in d: d[key] = sanitize_string(d[key])
SanitizeKeys(d, keys) ==
  IF keys = <<>> THEN d
  ELSE LET k == Head(keys)
           d1 == IF DictHas(d, k)
                   THEN DictSet(d, k, JStr(sanitize_string(DictGet(d, k, JNull))))
                   ELSE d
       IN SanitizeKeys(d1, Tail(keys))

\* content[:MAX_CONTENT_LENGTH] + "..." when the content is longer
TruncateContent(movie) ==
  IF DictHas(movie, K_content)
     /\ Len(DictGet(movie, K_content, JNull).v) > MAX_CONTENT_LENGTH
    THEN DictSet(movie, K_content,
           JStr(SubSeq(DictGet(movie, K_content, JNull).v, 1, MAX_CONTENT_LENGTH)
                \o <<46, 46, 46>>))
    ELSE movie

\* The cut of a revision that measures the content before it is sanitized:
\* the cut is made first, the four text fields are sanitized afterwards.
SanitizeMovie_CutsFirst(movie) ==
  SanitizeKeys(TruncateContent(movie), <<K_content, K_name, K_origin_name, K_trailer_url>>)

\* The movie as cached: four text fields sanitized, the content cut.
SanitizeMovie(movie) ==
  TruncateContent(SanitizeKeys(movie, <<K_content, K_name, K_origin_name, K_trailer_url>>))

\* Does the body of the inner loop raise for this episode?  "filename" in
\* episode raises for a number, a boolean and None; when the test holds for
\* a list or a text (which has the word as an element or a part), reading
\* episode["filename"] raises.  The same goes for "name".
EpisodeRaises(episode) ==
  \/ episode.t \in {"null", "bool", "int"}
  \/ /\ episode.t \in {"list", "str"}
     /\ Contains(episode, K_filename) \/ Contains(episode, K_name)

\* Does the loop over one server raise?  server.get raises for anything but
\* a dict; its server_data (an empty list when the key is not there) must be
\* a list, a dict or a text to be iterated, and no episode may raise.
ServerRaises(server) ==
  \/ server.t # "dict"
  \/ LET data == DictGet(server, K_server_data, JList(<<>>)) IN
     \/ ~Iterable(data)
     \/ \E i \in 1..Len(data.v) : EpisodeRaises(IterItems(data)[i])

\* Does the loop over episodes_data raise?
EpisodesRaise(episodes) ==
  \/ ~Iterable(episodes)
  \/ \E i \in 1..Len(episodes.v) : ServerRaises(IterItems(episodes)[i])

\* One server after the loop: filename and name of every episode of its
\* server_data that is a dict are sanitized in place.  The keys of a dict and
\* the characters of a text are iterated and left as they are.
SanitizeServer(server) ==
  LET data == DictGet(server, K_server_data, JList(<<>>)) IN
  IF ~DictHas(server, K_server_data) \/ data.t # "list" THEN server
  ELSE DictSet(server, K_server_data,
         JList([i \in 1..Len(data.v) |->
                  IF data.v[i].t = "dict"
                    THEN SanitizeKeys(data.v[i], <<K_filename, K_name>>)
                    ELSE data.v[i]]))

\* episodes_data after the loop, when the loop does not raise: the servers of
\* a list are sanitized in place, an empty dict or text stays what it is.
SanitizeEpisodes(episodes) ==
  IF episodes.t # "list" THEN episodes
  ELSE JList([i \in 1..Len(episodes.v) |-> SanitizeServer(episodes.v[i])])

\* full_data_to_cache
BuildRecord(api_data) ==
  JDict(<< <<K_status, DictGet(api_data, K_status, JNull)>>,
           <<K_msg, DictGet(api_data, K_msg, JStr(<<>>))>>,
           <<K_movie, SanitizeMovie(DictGet(api_data, K_movie, JDict(<<>>)))>>,
           <<K_episodes, SanitizeEpisodes(DictGet(api_data, K_episodes, JList(<<>>)))>> >>)

(***************************************************************************)
(* The key-value store and the upstream, as cache_movie sees them          *)
(*                                                                         *)
(* The store is a function from the keys present to the text stored under  *)
(* them.  set(key, value) sends the value inside a JSON request body and   *)
(* get(key) returns JSON text, as the connection test at start-up expects. *)
(***************************************************************************)
\* The text the store keeps for a value: its JSON text in the request body
\* (requests' json=: default separators, ensure_ascii, insertion order).
StoreWire(x) == Dumps(x, FALSE, TRUE, <<44, 32>>, <<58, 32>>)

\* A set that also writes an alias key "id:" + the movie's id, whose value is
\* the primary key.
StoreSet_WithAlias(st, key, x) ==
  LET alias == <<105, 100, 58>>
                 \o DictGet(DictGet(x, K_movie, JDict(<<>>)), K_id, JStr(<<>>)).v
  IN [k \in (DOMAIN st) \cup {key, alias} |->
        IF k = key THEN StoreWire(x) ELSE IF k = alias THEN key ELSE st[k]]

\* redis_client.set(key, value) on the store st, when it does not raise
StoreSet(st, key, x) ==
  [k \in (DOMAIN st) \cup {key} |-> IF k = key THEN StoreWire(x) ELSE st[k]]

\* One request to the upstream or to the store: what, for which slug or key,
\* and whether it returned (ok) or raised.
IoOp(op, key, ok) == [op |-> op, key |-> key, ok |-> ok]

\* What one call of cache_movie did: its return value ("exception" when an
\* exception left it), the store after it, the requests it made in order.
Outcome(result, st, ops) == [result |-> result, store |-> st, ops |-> ops]

\* The key without its prefix.
CacheKey_NoPrefix(slug) == slug

\* cache_key
CacheKey(slug) == MOVIE_DETAIL_CACHE_PREFIX \o slug

\* existing_data and compare_objects(full_data_to_cache, existing_data)
IsUnchanged(full, existing) == Truthy(existing) /\ compare_objects(full, existing)

\* existing_data: None for an absent key and for text that is not JSON
ExistingData(st, key) ==
  IF key \notin DOMAIN st THEN JNull
  ELSE LET r == Loads(st[key]) IN IF r.ok THEN r.val ELSE JNull

\* The try block without the inner handler of json.JSONDecodeError: stored
\* text that is not JSON ends in the outer handler.
Reconcile_DecodeErrorFails(key, full, st, getOk, setOk) ==
  IF ~getOk THEN Outcome("failed", st, <<IoOp("get", key, FALSE)>>)
  ELSE IF key \in DOMAIN st /\ ~Loads(st[key]).ok
    THEN Outcome("failed", st, <<IoOp("get", key, TRUE)>>)
  ELSE IF IsUnchanged(full, ExistingData(st, key))
    THEN Outcome("skipped", st, <<IoOp("get", key, TRUE)>>)
  ELSE IF ~setOk
    THEN Outcome("failed", st, <<IoOp("get", key, TRUE), IoOp("set", key, FALSE)>>)
  ELSE Outcome("cached", StoreSet(st, key, full),
               <<IoOp("get", key, TRUE), IoOp("set", key, TRUE)>>)

\* The try block with a handler that does not catch the store's write error.
Reconcile_SetErrorEscapes(key, full, st, getOk, setOk) ==
  IF ~getOk THEN Outcome("failed", st, <<IoOp("get", key, FALSE)>>)
  ELSE IF IsUnchanged(full, ExistingData(st, key))
    THEN Outcome("skipped", st, <<IoOp("get", key, TRUE)>>)
  ELSE IF ~setOk
    THEN Outcome("exception", st, <<IoOp("get", key, TRUE), IoOp("set", key, FALSE)>>)
  ELSE Outcome("cached", StoreSet(st, key, full),
               <<IoOp("get", key, TRUE), IoOp("set", key, TRUE)>>)

\* The try block of a revision that deletes stored text that is not JSON
\* before it writes the record: when the write then raises, the key is gone.
Reconcile_DeletesCorrupt(key, full, st, getOk, setOk) ==
  LET corrupt == getOk /\ key \in DOMAIN st /\ ~Loads(st[key]).ok
      kept == IF corrupt THEN [k \in (DOMAIN st) \ {key} |-> st[k]] ELSE st
  IN
  IF ~getOk THEN Outcome("failed", st, <<IoOp("get", key, FALSE)>>)
  ELSE IF IsUnchanged(full, ExistingData(st, key))
    THEN Outcome("skipped", st, <<IoOp("get", key, TRUE)>>)
  ELSE IF ~setOk
    THEN Outcome("failed", kept, <<IoOp("get", key, TRUE), IoOp("set", key, FALSE)>>)
  ELSE Outcome("cached", StoreSet(kept, key, full),
               <<IoOp("get", key, TRUE), IoOp("set", key, TRUE)>>)

\* The try block of a revision that writes first and compares afterwards: the
\* record is set whenever the read returned, and the outcome is still
\* "skipped" when it equals what was stored.
Reconcile_WritesBeforeCompare(key, full, st, getOk, setOk) ==
  IF ~getOk THEN Outcome("failed", st, <<IoOp("get", key, FALSE)>>)
  ELSE IF ~setOk
    THEN Outcome("failed", st, <<IoOp("get", key, TRUE), IoOp("set", key, FALSE)>>)
  ELSE IF IsUnchanged(full, ExistingData(st, key))
    THEN Outcome("skipped", StoreSet(st, key, full),
                 <<IoOp("get", key, TRUE), IoOp("set", key, TRUE)>>)
  ELSE Outcome("cached", StoreSet(st, key, full),
               <<IoOp("get", key, TRUE), IoOp("set", key, TRUE)>>)

\* The try block of cache_movie: read, compare, write.  getOk and setOk say
\* whether the store's get and set return or raise.
Reconcile(key, full, st, getOk, setOk) ==
  IF ~getOk THEN Outcome("failed", st, <<IoOp("get", key, FALSE)>>)
  ELSE IF IsUnchanged(full, ExistingData(st, key))
    THEN Outcome("skipped", st, <<IoOp("get", key, TRUE)>>)
  ELSE IF ~setOk
    THEN Outcome("failed", st, <<IoOp("get", key, TRUE), IoOp("set", key, FALSE)>>)
  ELSE Outcome("cached", StoreSet(st, key, full),
               <<IoOp("get", key, TRUE), IoOp("set", key, TRUE)>>)

\* An outcome with the requests `ops` made before it.
After(ops, o) == [o EXCEPT !.ops = ops \o o.ops]

\* quote(slug) raises for a slug that is not a text, and for a text with a
\* surrogate code point, which has no UTF-8 encoding.
QuoteRaises(slug) ==
  \/ slug.t # "str"
  \/ \E i \in 1..Len(slug.v) : slug.v[i] \in 55296..57343

\* The UTF-8 bytes of a code point.
Utf8(c) ==
  IF c < 128 THEN <<c>>
  ELSE IF c < 2048 THEN <<192 + (c \div 64), 128 + (c % 64)>>
  ELSE IF c < 65536
    THEN <<224 + (c \div 4096), 128 + ((c \div 64) % 64), 128 + (c % 64)>>
  ELSE <<240 + (c \div 262144), 128 + ((c \div 4096) % 64),
         128 + ((c \div 64) % 64), 128 + (c % 64)>>

\* One byte in a quoted path: letters, digits and _ . - ~ / stay, any other
\* byte is written as % and two upper-case hexadecimal digits.
QuoteByte(b) ==
  LET Upper(d) == IF d < 10 THEN 48 + d ELSE 55 + d IN
  IF b \in (48..57) \cup (65..90) \cup (97..122) \cup {95, 46, 45, 126, 47}
    THEN <<b>>
    ELSE <<37, Upper(b \div 16), Upper(b % 16)>>

\* quote(slug), for a text it does not raise for
quote(s) ==
  Join([i \in 1..Len(s) |->
          LET bytes == Utf8(s[i])
          IN Join([j \in 1..Len(bytes) |-> QuoteByte(bytes[j])], <<>>)],
       <<>>)

\* cache_movie without the check of the detail response's status flag.
cache_movie_NoStatusCheck(movie_item, detail, st, getOk, setOk) ==
  IF movie_item.t # "dict" THEN Outcome("exception", st, <<>>) ELSE
  LET slug == DictGet(movie_item, K_slug, JStr(<<>>)) IN
  IF ~Truthy(slug) THEN Outcome("failed", st, <<>>)
  ELSE IF QuoteRaises(slug) THEN Outcome("exception", st, <<>>)
  ELSE IF detail.kind = "error"
    THEN Outcome("failed", st, <<IoOp("detail", quote(slug.v), FALSE)>>)
  ELSE LET api_data == detail.body
           fetched == <<IoOp("detail", quote(slug.v), TRUE)>>
       IN
    IF api_data.t # "dict" THEN Outcome("exception", st, fetched)
    ELSE LET movie_data == DictGet(api_data, K_movie, JDict(<<>>)) IN
      IF movie_data.t # "dict" THEN Outcome("exception", st, fetched)
      ELSE IF ~validate_movie_data(movie_data) THEN Outcome("failed", st, fetched)
      ELSE IF EpisodesRaise(DictGet(api_data, K_episodes, JList(<<>>)))
        THEN Outcome("exception", st, fetched)
      ELSE After(fetched,
                 Reconcile(CacheKey(slug.v), BuildRecord(api_data), st, getOk, setOk))

\* cache_movie(movie_item), given the upstream's response to the detail
\* request (detail) and the store's behaviour (st, getOk, setOk).
cache_movie(movie_item, detail, st, getOk, setOk) ==
  IF movie_item.t # "dict" THEN Outcome("exception", st, <<>>) ELSE
  LET slug == DictGet(movie_item, K_slug, JStr(<<>>)) IN
  IF ~Truthy(slug) THEN Outcome("failed", st, <<>>)
  ELSE IF QuoteRaises(slug) THEN Outcome("exception", st, <<>>)
  ELSE IF detail.kind = "error"
    THEN Outcome("failed", st, <<IoOp("detail", quote(slug.v), FALSE)>>)
  ELSE LET api_data == detail.body
           fetched == <<IoOp("detail", quote(slug.v), TRUE)>>
       IN
    IF api_data.t # "dict" THEN Outcome("exception", st, fetched)
    ELSE IF ~Truthy(DictGet(api_data, K_status, JBool(FALSE)))
      THEN Outcome("failed", st, fetched)
    ELSE LET movie_data == DictGet(api_data, K_movie, JDict(<<>>)) IN
      IF movie_data.t # "dict" THEN Outcome("exception", st, fetched)
      ELSE IF ~validate_movie_data(movie_data) THEN Outcome("failed", st, fetched)
      ELSE IF EpisodesRaise(DictGet(api_data, K_episodes, JList(<<>>)))
        THEN Outcome("exception", st, fetched)
      ELSE After(fetched,
                 Reconcile(CacheKey(slug.v), BuildRecord(api_data), st, getOk, setOk))

(***************************************************************************)
(* The upstream's possible answers                                         *)
(***************************************************************************)
MaxPage == 2

\* The slugs "a" and "b".
Slugs == {<<97>>, <<98>>}

\* The dict d without the key k.
Without(d, k) == JDict(SelectSeq(d.v, LAMBDA p : p[1] # k))

\* A raw movie that passes validation.  Its name has typographic quotes.
RawMovie(slug, content) ==
  JDict(<< <<K_id, JStr(<<105>> \o slug)>>,
           <<K_name, JStr(<<8220, 78, 8221>>)>>,
           <<K_slug, JStr(slug)>>,
           <<K_content, JStr(content)>>,
           <<K_poster_url, JStr(<<112>>)>>,
           <<K_category, JList(<<JStr(<<99>>)>>)>> >>)

\* One server with one episode, whose name has a typographic quote.
RawEpisodes ==
  JList(<< JDict(<< <<K_server_data,
             JList(<< JDict(<< <<K_name, JStr(<<8216, 49>>)>>,
                               <<K_filename, JStr(<<102>>)>> >>) >>)>> >>) >>)

\* The body of a detail response.
DetailBody(status, movie) ==
  JDict(<< <<K_status, JBool(status)>>, <<K_msg, JStr(<<>>)>>,
           <<K_movie, movie>>, <<K_episodes, RawEpisodes>> >>)

\* Contents the upstream may serve for a movie: a quote, e, a combining
\* acute accent and a zero-width space; the letter b; a zero-width space
\* alone.
Contents == {<<8220, 101, 769, 8203>>, <<98>>, <<8203>>}

\* The movie the upstream serves for a slug it has renamed since the listing
\* was built: its own slug is no longer the slug of the request.
RenamedMovie(slug) == RawMovie(slug \o <<50>>, <<98>>)

\* Raw movies that validate_movie_data rejects: a required field missing or
\* empty, category or country not a list, neither image url.
InvalidMovies(slug) ==
  LET m == RawMovie(slug, <<98>>) IN
    {Without(m, k) : k \in {K_id, K_name, K_slug, K_content, K_poster_url}}
    \cup {DictSet(m, k, JStr(<<>>)) : k \in {K_id, K_name, K_slug, K_content}}
    \cup {DictSet(m, k, JStr(<<120>>)) : k \in {K_category, K_country}}

\* The detail body with other episodes; episodes whose one server is a list
\* and not a dict.
WithEpisodes(body, episodes) == DictSet(body, K_episodes, episodes)
ServerNotDict == JList(<<JList(<<>>)>>)

\* A response of the upstream: the request raised, or it returned a body.
ErrorResponse == [kind |-> "error", body |-> JNull]
BodyResponse(body) == [kind |-> "body", body |-> body]

\* What the upstream may answer to the detail request for a slug.  The
\* renamed movie comes with an empty object for its episodes, and one valid
\* movie with a server that is not a dict.
DetailResponses(slug) ==
  {ErrorResponse}
    \cup {BodyResponse(DetailBody(TRUE, RawMovie(slug, c))) : c \in Contents}
    \cup {BodyResponse(WithEpisodes(DetailBody(TRUE, RenamedMovie(slug)), JDict(<<>>)))}
    \cup {BodyResponse(DetailBody(FALSE, RawMovie(slug, <<98>>)))}
    \cup {BodyResponse(DetailBody(TRUE, m)) : m \in InvalidMovies(slug)}
    \cup {BodyResponse(DetailBody(TRUE, JNull)), BodyResponse(JList(<<>>))}
    \cup {BodyResponse(WithEpisodes(DetailBody(TRUE, RawMovie(slug, <<98>>)),
                                     ServerNotDict))}

\* A listing stub; the stub without a slug; the stub whose slug is the
\* number 5.
Stub(slug) == JDict(<< <<K_id, JStr(<<105>> \o slug)>>, <<K_slug, JStr(slug)>> >>)
StubNoSlug == JDict(<< <<K_id, JStr(<<105>>)>> >>)
StubNumberSlug == JDict(<< <<K_id, JStr(<<105>>)>>, <<K_slug, JInt(5)>> >>)

\* The body of a listing response.
ListBody(status, stubs, total) ==
  JDict(<< <<K_status, JBool(status)>>, <<K_items, JList(stubs)>>,
           <<K_pagination, JDict(<< <<K_totalPages, JInt(total)>> >>)>> >>)

\* The listing body with null for its pagination.
NullPagination(body) == DictSet(body, K_pagination, JNull)

\* What the upstream may answer to a listing request.
ListResponses ==
  {ErrorResponse, BodyResponse(JList(<<>>)),
   BodyResponse(ListBody(FALSE, <<Stub(<<97>>)>>, 1)),
   BodyResponse(NullPagination(ListBody(FALSE, <<>>, 1))),
   BodyResponse(ListBody(TRUE, <<>>, 1)),
   BodyResponse(NullPagination(ListBody(TRUE, <<>>, 1))),
   BodyResponse(NullPagination(ListBody(TRUE, <<Stub(<<97>>)>>, 1)))}
    \cup {BodyResponse(ListBody(TRUE, stubs, 1)) :
            stubs \in {<<Stub(<<97>>)>>, <<Stub(<<97>>), Stub(<<98>>)>>,
                       <<StubNoSlug, Stub(<<98>>)>>, <<StubNumberSlug, Stub(<<98>>)>>}}

\* What a key may hold when a run starts: nothing; the record of an earlier
\* run; the same record written by another client (keys sorted, compact);
\* text that is not JSON.
EarlierRecord(slug) == BuildRecord(DetailBody(TRUE, RawMovie(slug, <<98>>)))
InitialValues(slug) ==
  {StoreWire(EarlierRecord(slug)),
   Dumps(EarlierRecord(slug), TRUE, FALSE, <<44>>, <<58>>),
   SubSeq(StoreWire(EarlierRecord(slug)), 1, 9)}
InitialStores ==
  {st \in UNION {[{CacheKey(s) : s \in S} -> UNION {InitialValues(s) : s \in Slugs}] :
                   S \in SUBSET Slugs} :
     \A s \in Slugs : CacheKey(s) \in DOMAIN st => st[CacheKey(s)] \in InitialValues(s)}

(***************************************************************************)
(* crawl_movies                                                            *)
(***************************************************************************)
VARIABLES
  pc,       \* "list": about to request a page; "items": in the for loop; "done"
  page,     \* the page to request next
  items,    \* the items of the current page
  idx,      \* the position in items of the next item
  store,    \* the key-value store
  exit,     \* how the run ended: "running", "completed" (the last log line
            \* was reached), "early_stop" (return in the loop), "exception"
  last,     \* the last step taken, what it was given and what it did
  written,  \* for every key this run has set: the detail body it was set from
  nFailed,  \* items that came out "failed" so far
  probe     \* one function of the module applied on its own: its name, the
            \* arguments it was given and the values it returned, in order

vars == <<pc, page, items, idx, store, exit, last, written, nFailed, probe>>

\* No function is being applied on its own: this is a run of crawl_movies.
NoProbe == [fn |-> "none", args |-> <<>>, outs |-> <<>>]

NoStep ==
  [step |-> "none", page |-> 0, pos |-> 0, item |-> JNull, resp |-> ErrorResponse,
   result |-> "", ops |-> <<>>, before |-> <<>>, failedBefore |-> 0]

Init ==
  /\ pc = "list"
  /\ page = 1
  /\ items = <<>>
  /\ idx = 1
  /\ store \in InitialStores
  /\ exit = "running"
  /\ last = NoStep
  /\ written = <<>>
  /\ nFailed = 0
  /\ probe = NoProbe

\* The process's exit status once the run has ended: an uncaught exception
\* ends the interpreter with status 1, a return from crawl_movies with 0.
ExitStatus == IF exit = "exception" THEN 1 ELSE 0

\* The loop head without the check for an empty page.
ListVerdict_NoEmptyCheck(resp) ==
  IF resp.kind = "error" THEN "break"
  ELSE IF resp.body.t # "dict" THEN "exception"
  ELSE IF ~Truthy(DictGet(resp.body, K_status, JBool(FALSE))) THEN "break"
  ELSE IF DictGet(resp.body, K_pagination, JDict(<<>>)).t # "dict" THEN "exception"
  ELSE "items"

\* What the listing response means for the loop: "exception", "break" or
\* "items".  total_pages is read before the items are looked at, and reading
\* it raises when the body's pagination is there and is not a dict.
ListVerdict(resp) ==
  IF resp.kind = "error" THEN "break"
  ELSE IF resp.body.t # "dict" THEN "exception"
  ELSE IF ~Truthy(DictGet(resp.body, K_status, JBool(FALSE))) THEN "break"
  ELSE IF DictGet(resp.body, K_pagination, JDict(<<>>)).t # "dict" THEN "exception"
  ELSE IF ~Truthy(DictGet(resp.body, K_items, JList(<<>>))) THEN "break"
  ELSE "items"


\* The loop of a revision without the early stop.
StopsEarly_Never(result) == FALSE

\* result == "skipped"
StopsEarly(result) == result = "skipped"

\* The head of the while loop: request the page, leave the loop or enter the
\* for loop.
FetchListPage ==
  /\ pc = "list"
  /\ page <= MaxPage
  /\ \E resp \in ListResponses :
       LET head == ListVerdict(resp)
           v == IF head = "items" /\ ~Iterable(DictGet(resp.body, K_items, JList(<<>>)))
                  THEN "exception" ELSE head
       IN
       /\ last' = [step |-> "list", page |-> page, pos |-> 0, item |-> JNull, resp |-> resp,
                   result |-> v, ops |-> <<IoOp("list", IntToStr(page), resp.kind # "error")>>,
                   before |-> store, failedBefore |-> nFailed]
       /\ IF v = "items"
            THEN /\ items' = IterItems(DictGet(resp.body, K_items, JList(<<>>)))
                 /\ idx' = 1
                 /\ pc' = "items"
                 /\ exit' = exit
            ELSE /\ pc' = "done"
                 /\ exit' = IF v = "exception" THEN "exception" ELSE "completed"
                 /\ UNCHANGED <<items, idx>>
  /\ UNCHANGED <<page, store, written, nFailed, probe>>

\* How the store may behave during one call: <<get returns, set returns>>.
StoreBehaviours == {<<TRUE, TRUE>>, <<TRUE, FALSE>>, <<FALSE, TRUE>>}

\* Does cache_movie get as far as reading the store?
ReachesStore(item, detail, st) ==
  LET o == cache_movie(item, detail, st, FALSE, FALSE)
  IN \E i \in 1..Len(o.ops) : o.ops[i].op = "get"

\* One iteration of the for loop: cache_movie on the next item, and the
\* early return when it was skipped.
ProcessItem ==
  /\ pc = "items"
  /\ idx <= Len(items)
  /\ LET item == items[idx]
         slug == IF item.t = "dict" THEN DictGet(item, K_slug, JStr(<<>>)) ELSE JNull
     IN \E detail \in (IF slug.t = "str" /\ Truthy(slug)
                         THEN DetailResponses(slug.v) ELSE {ErrorResponse}) :
        \E env \in (IF ReachesStore(item, detail, store)
                       THEN StoreBehaviours ELSE {<<TRUE, TRUE>>}) :
          \E r \in {cache_movie(item, detail, store, env[1], env[2])} :
          /\ last' = [step |-> "item", page |-> page, pos |-> idx, item |-> item,
                      resp |-> IF r.ops = <<>> THEN ErrorResponse ELSE detail,
                      result |-> r.result, ops |-> r.ops, before |-> store,
                      failedBefore |-> nFailed]
          /\ store' = r.store
          /\ written' = IF r.result = "cached"
                          THEN LET key == r.ops[Len(r.ops)].key IN
                               [k \in (DOMAIN written) \cup {key} |->
                                  IF k = key THEN detail.body ELSE written[k]]
                          ELSE written
          /\ nFailed' = nFailed + (IF r.result = "failed" THEN 1 ELSE 0)
          /\ IF r.result = "exception"
               THEN pc' = "done" /\ exit' = "exception" /\ idx' = idx
               ELSE IF StopsEarly(r.result)
                 THEN pc' = "done" /\ exit' = "early_stop" /\ idx' = idx
                 ELSE pc' = pc /\ exit' = exit /\ idx' = idx + 1
  /\ UNCHANGED <<page, items, probe>>

\* The end of the for loop without page += 1.
NextPage_NoIncrement ==
  /\ pc = "items"
  /\ idx > Len(items)
  /\ page' = page
  /\ pc' = "list"
  /\ last' = [NoStep EXCEPT !.step = "next", !.page = page, !.before = store,
                            !.failedBefore = nFailed]
  /\ UNCHANGED <<items, idx, store, exit, written, nFailed, probe>>

\* The end of the for loop of a revision that starts over at the first page.
NextPage_StartsOver ==
  /\ pc = "items"
  /\ idx > Len(items)
  /\ page' = 1
  /\ pc' = "list"
  /\ last' = [NoStep EXCEPT !.step = "next", !.page = page, !.before = store,
                            !.failedBefore = nFailed]
  /\ UNCHANGED <<items, idx, store, exit, written, nFailed, probe>>

\* The end of the for loop: page += 1 and back to the head of the while loop.
NextPage ==
  /\ pc = "items"
  /\ idx > Len(items)
  /\ page' = page + 1
  /\ pc' = "list"
  /\ last' = [NoStep EXCEPT !.step = "next", !.page = page, !.before = store,
                            !.failedBefore = nFailed]
  /\ UNCHANGED <<items, idx, store, exit, written, nFailed, probe>>

Next == FetchListPage \/ ProcessItem \/ NextPage

Spec == Init /\ [][Next]_vars

\* A run that starts on an empty store.
EmptyInit == Init /\ store = <<>>

\* crawl_movies when every request returns and the interpreter always takes
\* the loop's next step.
FairSpec == EmptyInit /\ [][Next]_vars /\ WF_vars(Next)

(***************************************************************************)
(* Functions of the module applied on their own                            *)
(***************************************************************************)
\* The state in which the function fn is about to be applied to args: no run
\* of crawl_movies is under way and the store is empty.
ProbeInit(fn, argss) ==
  /\ pc = "done"
  /\ page = 1
  /\ items = <<>>
  /\ idx = 1
  /\ store = <<>>
  /\ exit = "running"
  /\ last = NoStep
  /\ written = <<>>
  /\ nFailed = 0
  /\ probe \in {[fn |-> fn, args |-> args, outs |-> <<>>] : args \in argss}

\* The longest text given to sanitize_string.
MaxText == 3

\* The characters of these texts: a, e, a combining acute accent, a
\* zero-width space and a typographic quote.
TextAlphabet == {97, 101, 769, 8203, 8220}

\* The texts of at most n characters.
TextsUpTo(n) == UNION {[1..k -> TextAlphabet] : k \in 0..n}

\* sanitize_string applied to a text, and then to its own result.
SanitizeInit == ProbeInit("sanitize_string", {<<JStr(t)>> : t \in TextsUpTo(MaxText)})

ApplySanitize ==
  /\ probe.fn = "sanitize_string"
  /\ Len(probe.outs) < 2
  /\ probe' = [probe EXCEPT !.outs =
                 Append(@, sanitize_string(IF @ = <<>> THEN probe.args[1]
                                           ELSE JStr(@[Len(@)])))]
  /\ UNCHANGED <<pc, page, items, idx, store, exit, last, written, nFailed>>

SanitizeSpec == SanitizeInit /\ [][ApplySanitize]_vars

\* The sequence s backwards.
Reversed(s) == [i \in 1..Len(s) |-> s[Len(s) + 1 - i]]

\* A record with two categories and two servers, as cache_movie builds it.
TwoServerRecord ==
  LET movie == DictSet(RawMovie(<<97>>, <<98>>), K_category,
                       JList(<<JStr(<<99>>), JStr(<<100>>)>>))
      server == RawEpisodes.v[1]
      other == DictSet(server, K_server_data, JList(<<>>))
  IN BuildRecord(DictSet(DictSet(DetailBody(TRUE, movie), K_episodes,
                                 JList(<<server, other>>)),
                         K_msg, JStr(<<109>>)))

\* The record r and the records that differ from it in one respect: the order
\* of the record's keys or of the movie's keys; the order of the categories
\* or of the servers; one letter of the content; a space after the name.
Variants(r) ==
  LET movie == DictGet(r, K_movie, JNull)
      WithMovie(m) == DictSet(r, K_movie, m)
  IN {r,
      JDict(Reversed(r.v)),
      WithMovie(JDict(Reversed(movie.v))),
      WithMovie(DictSet(movie, K_category,
                        JList(Reversed(DictGet(movie, K_category, JNull).v)))),
      DictSet(r, K_episodes, JList(Reversed(DictGet(r, K_episodes, JNull).v))),
      WithMovie(DictSet(movie, K_content, JStr(<<66>>))),
      WithMovie(DictSet(movie, K_name, JStr(DictGet(movie, K_name, JNull).v \o <<32>>)))}

\* The records that differ from TwoServerRecord in at most two respects.
CompareRecords == UNION {Variants(r) : r \in Variants(TwoServerRecord)}

\* The comparison of cache_movie applied to a candidate record and a stored
\* record.
CompareInit ==
  ProbeInit("compare_objects", {<<new, old>> : new \in Variants(TwoServerRecord),
                                                old \in CompareRecords})

ApplyCompare ==
  /\ probe.fn = "compare_objects"
  /\ probe.outs = <<>>
  /\ probe' = [probe EXCEPT !.outs = <<IsUnchanged(probe.args[1], probe.args[2])>>]
  /\ UNCHANGED <<pc, page, items, idx, store, exit, last, written, nFailed>>

CompareSpec == CompareInit /\ [][ApplyCompare]_vars

\* How far the length of a synopsis is from MAX_CONTENT_LENGTH at most, and
\* the most characters of it that sanitization removes.
MaxOver == 4
MaxRemoved == 3

\* A synopsis of n letters (a to z in turn) with k extra characters that
\* sanitization removes: zero-width spaces in front or at the end, or
\* combining accents after k letters e in front, each of which NFC composes
\* with its letter.
Synopsis(n, k, how) ==
  LET letters == [i \in 1..n |-> 97 + (i % 26)] IN
  IF how = "front" THEN [i \in 1..k |-> 8203] \o letters
  ELSE IF how = "end" THEN letters \o [i \in 1..k |-> 8203]
  ELSE [i \in 1..(2 * k) |-> IF i % 2 = 1 THEN 101 ELSE 769]
         \o SubSeq(letters, k + 1, n)

Synopses ==
  {Synopsis(n, k, how) :
     n \in (MAX_CONTENT_LENGTH - MaxOver)..(MAX_CONTENT_LENGTH + MaxOver),
     k \in 0..MaxRemoved, how \in {"front", "end", "accents"}}

\* The record cache_movie builds for the store, full_data_to_cache, from the
\* detail body of a movie with a long synopsis.
BuildLongInit ==
  ProbeInit("full_data_to_cache",
            {<<DetailBody(TRUE, RawMovie(<<97>>, c))>> : c \in Synopses})

ApplyBuildRecord ==
  /\ probe.fn = "full_data_to_cache"
  /\ probe.outs = <<>>
  /\ validate_movie_data(DictGet(probe.args[1], K_movie, JDict(<<>>)))
  /\ probe' = [probe EXCEPT !.outs = <<BuildRecord(probe.args[1])>>]
  /\ UNCHANGED <<pc, page, items, idx, store, exit, last, written, nFailed>>

BuildLongSpec == BuildLongInit /\ [][ApplyBuildRecord]_vars

(***************************************************************************)
(* Properties                                                              *)
(***************************************************************************)
\* The last step was one call of cache_movie.
ItemStep == last.step = "item"

\* Did the last step make a request of this kind that returned (ok) or raised?
LastOp(op, ok) == \E i \in 1..Len(last.ops) : last.ops[i].op = op /\ last.ops[i].ok = ok

\* Did the last step make a request of this kind at all?
LastTried(op) == \E i \in 1..Len(last.ops) : last.ops[i].op = op

\* The slug of the last step's listing stub, and the primary key built from it.
LastSlug ==
  IF last.item.t = "dict" THEN PyStr(DictGet(last.item, K_slug, JStr(<<>>))) ELSE <<>>
LastKey == MOVIE_DETAIL_CACHE_PREFIX \o LastSlug

\* The record cache_movie builds from the last step's detail body.
LastRecord == BuildRecord(last.resp.body)

\* After the last item the for loop goes on: with the next item of the page,
\* or past the page's last item to the next page.
RunContinues ==
  /\ exit = "running"
  /\ pc = "items"
  /\ idx = last.pos + 1
  /\ ENABLED (ProcessItem \/ NextPage)

\* The run has ended: nothing more is requested, read or written.
RunOver == pc = "done" /\ ~ENABLED Next

(* C1: once cache_movie returns "skipped" for an item the run is over: it
   returns from crawl_movies at once, and no later item of the page and no
   later page is requested, whatever the store holds for them. *)
C1_EarlyStop ==
  (ItemStep /\ last.result = "skipped") => (exit = "early_stop" /\ RunOver)

\* An item was skipped while a later item of the same page, for which the
\* store holds nothing, was still to come.
C1_Witness ==
  /\ ItemStep /\ last.result = "skipped"
  /\ idx < Len(items)
  /\ CacheKey(DictGet(items[idx + 1], K_slug, JStr(<<>>)).v) \notin DOMAIN store

\* The last step fetched a detail body that is a dict with a true status flag.
FetchedOk ==
  /\ ItemStep /\ LastOp("detail", TRUE)
  /\ last.resp.body.t = "dict"
  /\ Truthy(DictGet(last.resp.body, K_status, JBool(FALSE)))

\* The raw movie of the last step's detail body.
LastMovie == DictGet(last.resp.body, K_movie, JDict(<<>>))

(* C2: when the store holds under an item's key exactly what cache_movie
   sets for the item's detail payload, cache_movie on that payload returns
   "skipped" and sets nothing. *)
C2_Idempotent ==
  (/\ ItemStep /\ LastOp("get", TRUE)
   /\ LastKey \in DOMAIN last.before
   /\ last.before[LastKey] = StoreWire(LastRecord))
    => (last.result = "skipped" /\ ~LastTried("set") /\ store = last.before)

\* An item was skipped whose record this very run had written, from the same
\* detail payload.
C2_Witness ==
  /\ ItemStep /\ last.result = "skipped"
  /\ LastKey \in DOMAIN written
  /\ written[LastKey] = last.resp.body

(* C3: when the store's get raises while an item is reconciled, the item is
   taken as new: its record is written under the primary key and the item
   is not failed. *)
C3_ReadFailureIsAbsent ==
  (ItemStep /\ LastOp("get", FALSE))
    => /\ last.result = "cached"
       /\ LastKey \in DOMAIN store
       /\ store[LastKey] = StoreWire(LastRecord)

\* The store held text that is not JSON under the key of the last item, and
\* cache_movie read it.
CorruptBefore ==
  /\ ItemStep /\ LastOp("get", TRUE)
  /\ LastKey \in DOMAIN last.before
  /\ ~Loads(last.before[LastKey]).ok

(* C4: when the text stored under an item's key is not JSON, cache_movie
   takes the item as new: it sets the key to the record it built and returns
   "cached" (unless the set itself raises); it neither raises nor returns
   "skipped", and the run goes on. *)
C4_CorruptCache ==
  CorruptBefore
    => /\ LastTried("set")
       /\ LastOp("set", TRUE)
            => (last.result = "cached" /\ store[LastKey] = StoreWire(LastRecord))
       /\ LastOp("set", FALSE) => last.result = "failed"
       /\ RunContinues

\* Text that is not JSON was overwritten with the record.
C4_Witness ==
  /\ CorruptBefore
  /\ last.result = "cached"
  /\ Loads(store[LastKey]).ok

\* The detail request of the last step raised, or its body's status flag
\* was false or missing.
DetailFailed ==
  /\ ItemStep /\ LastTried("detail")
  /\ \/ last.resp.kind = "error"
     \/ /\ last.resp.kind = "body"
        /\ last.resp.body.t = "dict"
        /\ ~Truthy(DictGet(last.resp.body, K_status, JBool(FALSE)))

(* C5: a detail request that raises, or that returns a false status flag,
   makes that one item "failed", reads and writes nothing in the store, and
   the run goes on with the next item or the next page. *)
C5_DetailFailure ==
  DetailFailed
    => /\ last.result = "failed"
       /\ Len(last.ops) = 1
       /\ store = last.before
       /\ nFailed = last.failedBefore + 1
       /\ RunContinues

\* A detail body with a false status flag failed an item that has a
\* successor on its page.
C5_Witness ==
  /\ DetailFailed /\ last.resp.kind = "body"
  /\ last.result = "failed"
  /\ idx <= Len(items)

\* The key is missing from the dict, or holds null or the empty text.
MissingOrEmpty(d, k) == DictGet(d, k, JNull) \in {JNull, JStr(<<>>)}

\* The raw movie is one the claim calls invalid.
Rejected(m) ==
  \/ \E k \in {K_id, K_name, K_slug, K_content} : MissingOrEmpty(m, k)
  \/ \E k \in {K_category, K_country} : DictHas(m, k) /\ DictGet(m, k, JNull).t # "list"
  \/ MissingOrEmpty(m, K_poster_url) /\ MissingOrEmpty(m, K_thumb_url)

(* C6: an item whose stub has no slug, or whose fetched raw movie lacks (or
   has empty) _id, name, slug or content, has a category or country that is
   not a list, or has neither poster_url nor thumb_url, comes out "failed";
   the store is not touched and the run goes on. *)
C6_ValidationRejects ==
  (ItemStep /\ (\/ MissingOrEmpty(last.item, K_slug)
                \/ FetchedOk /\ LastMovie.t = "dict" /\ Rejected(LastMovie)))
    => /\ last.result = "failed"
       /\ ~LastTried("get") /\ ~LastTried("set")
       /\ store = last.before
       /\ RunContinues

\* A fetched raw movie without a slug was rejected.
C6_Witness ==
  /\ FetchedOk /\ LastMovie.t = "dict"
  /\ ~DictHas(LastMovie, K_slug)
  /\ last.result = "failed"

(* C7: when the store's set raises, the item comes out "failed" and the run
   goes on with the next item or the next page. *)
C7_WriteFailure ==
  (ItemStep /\ LastOp("set", FALSE))
    => (last.result = "failed" /\ store = last.before /\ RunContinues)

\* A set raised for an item that has a successor on its page.
C7_Witness ==
  /\ ItemStep /\ LastOp("set", FALSE)
  /\ last.result = "failed"
  /\ idx <= Len(items)

\* The last step was a listing request that raised.
ListFailed == last.step = "list" /\ last.resp.kind = "error"

(* C8: a failed request for page 1 ends the run aborted, which differs from
   a normal completion; a failed request for a later page ends it normally;
   and a run that ended normally did so whatever the number of failed
   items. *)
C8_AbortOnFirstPage ==
  /\ (ListFailed /\ last.page = 1) => (exit # "completed" /\ ExitStatus # 0)
  /\ (ListFailed /\ last.page > 1) => (exit = "completed" /\ ExitStatus = 0)
  /\ (exit \in {"completed", "early_stop"}) => ExitStatus = 0

\* The last step was a listing request that raised, or whose body had a false
\* status flag or no items.
ListEnded ==
  /\ last.step = "list"
  /\ \/ last.resp.kind = "error"
     \/ /\ last.resp.kind = "body"
        /\ last.resp.body.t = "dict"
        /\ \/ ~Truthy(DictGet(last.resp.body, K_status, JBool(FALSE)))
           \/ Len(DictGet(last.resp.body, K_items, JList(<<>>)).v) = 0

\* The last listing body has a true status flag and a pagination that is
\* not a dict: reading total_pages from it raises.
PaginationRaises ==
  /\ last.resp.kind = "body" /\ last.resp.body.t = "dict"
  /\ Truthy(DictGet(last.resp.body, K_status, JBool(FALSE)))
  /\ DictGet(last.resp.body, K_pagination, JDict(<<>>)).t # "dict"

(* C9: when the request for a listing page raises, returns a false status
   flag or returns no items, the run is over: nothing more is requested and
   the store is not written.  The run has ended normally, unless the body had
   no items and a pagination that cannot be read, which ends it with an
   uncaught exception. *)
C9_ListingEnds ==
  ListEnded =>
    /\ RunOver /\ store = last.before
    /\ exit = IF PaginationRaises THEN "exception" ELSE "completed"

\* Page 2 came back with a true status flag and no items.
C9_Witness ==
  /\ ListEnded /\ last.page = 2
  /\ last.resp.kind = "body"
  /\ Truthy(DictGet(last.resp.body, K_status, JBool(FALSE)))

(* C10, as stated: an item found new or changed has its primary key set and
   then at least one more key (the alias key, the stream keys). *)
C10_WritesAliasAndStreams ==
  (ItemStep /\ last.result = "cached")
    => \E i, j \in 1..Len(last.ops) :
         /\ i < j
         /\ last.ops[i] = IoOp("set", LastKey, TRUE)
         /\ last.ops[j].op = "set" /\ last.ops[j].key # LastKey

(* C10, amended: an item found new or changed has its primary key
   "movie:" + slug set once, after the detail request and the read of that
   key; no other key is set or changed. *)
C10_WritesPrimaryOnly ==
  (ItemStep /\ last.result = "cached")
    => /\ last.ops = <<IoOp("detail", quote(LastSlug), TRUE), IoOp("get", LastKey, TRUE),
                       IoOp("set", LastKey, TRUE)>>
       /\ DOMAIN store = (DOMAIN last.before) \cup {LastKey}
       /\ store[LastKey] = StoreWire(LastRecord)
       /\ \A k \in DOMAIN last.before : k # LastKey => store[k] = last.before[k]

\* A changed item was written while the store held another key.
C10_Witness ==
  /\ ItemStep /\ last.result = "cached"
  /\ LastKey \in DOMAIN last.before
  /\ store[LastKey] # last.before[LastKey]
  /\ \E k \in DOMAIN store : k # LastKey

(* C11: an item whose outcome is "skipped" or "failed" leaves the store
   exactly as it was before the item was processed: the same keys, and under
   every key the same stored text. *)
C11_StoreUntouched ==
  (ItemStep /\ last.result \in {"skipped", "failed"}) => store = last.before

\* An item was skipped although the text stored under its key is not the text
\* a write of its record would have stored (another client wrote it with
\* sorted keys), or an item failed on the write of a record that differs
\* from what its key held: in both cases a write would have shown.
C11_Witness ==
  /\ ItemStep /\ LastTried("get")
  /\ LastKey \in DOMAIN last.before
  /\ last.before[LastKey] # StoreWire(LastRecord)
  /\ \/ last.result = "skipped"
     \/ last.result = "failed" /\ LastOp("set", FALSE)

(* C16: the set of keys present in the store never shrinks during a run: no
   step of crawl_movies removes a key. *)
C16_KeysNeverShrink == [][DOMAIN store \subseteq DOMAIN store']_vars

\* A key was created while the key the store held before is still there.
C16_Witness ==
  /\ ItemStep /\ last.result = "cached"
  /\ DOMAIN last.before # {}
  /\ LastKey \notin DOMAIN last.before
  /\ DOMAIN last.before \subseteq DOMAIN store

\* The requests of one call of cache_movie come in the order detail fetch,
\* store read, store write; each is made only after the one before it
\* returned; the detail request names the stub's slug and the store requests
\* name the key built from it.
OpsInOrder(ops, slug) ==
  /\ Len(ops) <= 3
  /\ \A i \in 1..Len(ops) :
       /\ ops[i].op = <<"detail", "get", "set">>[i]
       /\ ops[i].key = IF i = 1 THEN quote(slug) ELSE CacheKey(slug)
       /\ i < Len(ops) => ops[i].ok

(* C17: the run is strictly sequential.  Listing pages are requested in
   ascending order starting at page 1, each at most once: the first request is
   for page 1 and every later one is for the page after the one requested
   before it.  The next page is requested only when every item of the current
   page has been processed.  Items are processed one at a time in the order of
   the page, and the detail fetch, the store read and the store write of one
   item are made in this order and are over before the next item's. *)
C17_Sequential ==
  [][ /\ last'.step = "list" =>
          /\ last'.page = page
          /\ \/ last.step = "none" /\ last'.page = 1
             \/ /\ last.step = "next"
                /\ last'.page = last.page + 1
                /\ idx > Len(items)
      /\ last'.step = "item" =>
          /\ last'.page = page
          /\ last'.pos = idx /\ idx <= Len(items)
          /\ \/ last.step = "list" /\ last.page = page /\ last'.pos = 1
             \/ /\ last.step = "item" /\ last.page = page
                /\ last'.pos = last.pos + 1
                /\ last.result \in {"cached", "failed"}
          /\ OpsInOrder(last'.ops, DictGet(last'.item, K_slug, JStr(<<>>)).v)
      /\ last'.step = "next" =>
          /\ last.step \in {"list", "item"}
          /\ last'.page = last.page
          /\ idx > Len(items)
    ]_vars

\* The second item of the second page made all three of its requests.
C17_Witness ==
  /\ ItemStep /\ last.page = 2 /\ last.pos = 2
  /\ Len(last.ops) = 3

(* C20: processing an item with slug s makes at most one set request, and
   only on the key "movie:" + s; the store changes only when that request
   returned, and every other key is present or absent as before and holds the
   text it held before, whatever the outcome of the item. *)
C20_WriteFootprint ==
  ItemStep =>
    /\ Cardinality({i \in 1..Len(last.ops) : last.ops[i].op = "set"}) <= 1
    /\ \A i \in 1..Len(last.ops) :
         last.ops[i].op = "set" => last.ops[i].key = MOVIE_DETAIL_CACHE_PREFIX \o LastSlug
    /\ store # last.before => LastOp("set", TRUE)
    /\ \A k \in (DOMAIN store) \cup (DOMAIN last.before) :
         k # MOVIE_DETAIL_CACHE_PREFIX \o LastSlug =>
           /\ k \in DOMAIN store /\ k \in DOMAIN last.before
           /\ store[k] = last.before[k]

\* The item's key was created by its one set request while the store held
\* another slug's key.
C20_Witness ==
  /\ ItemStep /\ LastTried("set")
  /\ LastKey \notin DOMAIN last.before
  /\ LastKey \in DOMAIN store
  /\ \E k \in DOMAIN last.before : k # LastKey

\* The record the last step stored under its key, read back from the store.
StoredRecord == Loads(store[LastKey]).val
StoredMovie == DictGet(StoredRecord, K_movie, JDict(<<>>))

(* C18: the record stored under the primary key built from slug s has
   movie.slug = s: after an item was cached, the slug inside the record that
   its key now holds is the slug the key was built from. *)
C18_KeyMatchesRecordSlug ==
  (ItemStep /\ last.result = "cached") =>
    DictGet(StoredMovie, K_slug, JNull) = JStr(LastSlug)

(* C19: every record written to the store satisfies the validation predicate
   in its stored form: after an item was cached, the movie of the record its
   key holds has a non-empty _id, name, slug and content, a list or no value
   for category and for country, and a poster or thumbnail url. *)
C19_StoredRecordValid ==
  (ItemStep /\ last.result = "cached") => validate_movie_data(StoredMovie)

\* The listing response has a true status flag and at least one item.
ServesItems(resp) ==
  /\ resp.kind = "body" /\ resp.body.t = "dict"
  /\ Truthy(DictGet(resp.body, K_status, JBool(FALSE)))
  /\ Truthy(DictGet(resp.body, K_items, JList(<<>>)))

(* C12 as stated: every run of crawl_movies eventually terminates, whatever
   the upstream answers to the requests, provided each request returns: in
   every state the run has ended or the loop has a next step within the first
   MaxPage pages. *)
C12_AlwaysTerminates == pc = "done" \/ ENABLED Next

(* C12, amended: every run of crawl_movies for which the upstream serves
   items on fewer than MaxPage + 1 pages eventually terminates, provided each
   request returns. *)
C12_TerminatesWhenListingEnds == [](page <= MaxPage) => <>(pc = "done")

\* The run ended on a listing page after the first, without an early stop.
C12_Witness ==
  /\ pc = "done" /\ exit = "completed"
  /\ last.step = "list" /\ last.page > 1
  /\ ~ServesItems(last.resp)

(* C13: sanitize_string is idempotent: applied to its own result for a text x
   it returns that result again, for every text x that mixes letters,
   combining marks, non-printable characters and typographic quotes. *)
C13_SanitizeIdempotent ==
  (probe.fn = "sanitize_string" /\ Len(probe.outs) = 2) => probe.outs[2] = probe.outs[1]

\* The keys of a dict.
KeysOf(d) == {d.v[i][1] : i \in 1..Len(d.v)}

\* Are x and y the same value when the order of the keys of objects does not
\* count?  Objects have the same keys with the same values under them,
\* sequences the same length and the same values position by position, and
\* texts, numbers, booleans and null are equal.
RECURSIVE SameUpToKeyOrder(_, _)
SameUpToKeyOrder(x, y) ==
  IF x.t # y.t THEN FALSE
  ELSE IF x.t = "dict"
    THEN /\ KeysOf(x) = KeysOf(y)
         /\ \A k \in KeysOf(x) : SameUpToKeyOrder(DictGet(x, k, JNull), DictGet(y, k, JNull))
  ELSE IF x.t = "list"
    THEN /\ Len(x.v) = Len(y.v)
         /\ \A i \in 1..Len(x.v) : SameUpToKeyOrder(x.v[i], y.v[i])
  ELSE x = y

(* C14: the comparison of a candidate record with the stored record reports
   unchanged exactly when the two are the same value up to the order of the
   keys of their objects: the key order of either input does not count, the
   order of sequences (servers, categories) and the exact text do. *)
C14_CompareSemantics ==
  (probe.fn = "compare_objects" /\ probe.outs # <<>>) =>
    (probe.outs[1] <=> SameUpToKeyOrder(probe.args[1], probe.args[2]))

\* Two records whose keys are in different orders, at the top and inside the
\* movie, were reported unchanged.
C14_Witness ==
  /\ probe.fn = "compare_objects" /\ probe.outs = <<TRUE>>
  /\ probe.args[1].v # probe.args[2].v
  /\ DictGet(probe.args[1], K_movie, JNull) # DictGet(probe.args[2], K_movie, JNull)

\* Two records that differ only in the order of their categories were
\* reported changed.
C14_WitnessSequence ==
  /\ probe.fn = "compare_objects" /\ probe.outs = <<FALSE>>
  /\ probe.args[2] = 
       DictSet(probe.args[1], K_movie,
         DictSet(DictGet(probe.args[1], K_movie, JNull), K_category,
           JList(Reversed(DictGet(DictGet(probe.args[1], K_movie, JNull), K_category, JNull).v))))

\* The synopsis the upstream served, and the synopsis of the record built for
\* the store from it.
ServedSynopsis == DictGet(DictGet(probe.args[1], K_movie, JNull), K_content, JNull)
StoredSynopsis == DictGet(DictGet(probe.outs[1], K_movie, JNull), K_content, JNull).v

(* C15: in the record written to the store, a synopsis whose sanitized length
   exceeds 1000 code points is exactly the first 1000 code points of the
   sanitized synopsis followed by the marker "...", and a synopsis whose
   sanitized length is at most 1000 code points is the sanitized synopsis
   itself, however long it was before sanitization. *)
C15_Truncation ==
  (probe.fn = "full_data_to_cache" /\ probe.outs # <<>>) =>
    LET clean == sanitize_string(ServedSynopsis) IN
    IF Len(clean) > 1000
      THEN /\ Len(StoredSynopsis) = 1003
           /\ \A i \in 1..1000 : StoredSynopsis[i] = clean[i]
           /\ \A i \in 1001..1003 : StoredSynopsis[i] = 46
      ELSE StoredSynopsis = clean

\* A synopsis longer than 1000 code points was stored whole, because
\* sanitization made it 1000 code points long.
C15_Witness ==
  /\ probe.fn = "full_data_to_cache" /\ probe.outs # <<>>
  /\ Len(ServedSynopsis.v) > 1000
  /\ Len(StoredSynopsis) = 1000

\* A synopsis of 1001 code points after sanitization was cut.
C15_WitnessCut ==
  /\ probe.fn = "full_data_to_cache" /\ probe.outs # <<>>
  /\ Len(sanitize_string(ServedSynopsis)) = 1001
  /\ Len(StoredSynopsis) = 1003

====
